---- MODULE Spec2Model ----
(***************************************************************************)
(* import_export.fields.Field: the mapping between one dataset column and  *)
(* one attribute path of a domain object (clean / get_value / save /       *)
(* export), as a state machine over one Field instance and a small heap of *)
(* domain objects.                                                         *)
(*                                                                         *)
(* Python values are written as tagged strings:                            *)
(*   "None"            None                                                *)
(*   "int:0" "int:5"   integers          "str:" "str:x" "str:5"  strings   *)
(*   "fn:5" "fn:0"     zero-argument callables returning 5 and 0           *)
(*   "fn:fn5"          a zero-argument callable returning the callable fn:5*)
(*   "NOT_PROVIDED"    django.db.models.fields.NOT_PROVIDED (a class)      *)
(*   "Manager"         an instance of django.db.models.manager.Manager     *)
(*   "o1" "o2"         references to domain objects of the heap            *)
(***************************************************************************)
EXTENDS Naturals, Sequences, FiniteSets, TLC

VARIABLES field, constructed, heap, last, invoked, changes, pc, loc

vars == <<field, constructed, heap, last, invoked, changes, pc, loc>>

----------------------------------------------------------------------------
(* Bounds *)

MaxCols == 2

----------------------------------------------------------------------------
(* Python values *)

None == "None"

NOT_PROVIDED == "NOT_PROVIDED"

Oids == {"o1", "o2"}

\* bool(v): None, 0 and the empty string are falsy
Truthy(v) == v \notin {"None", "int:0", "str:"}

\* callable(v): functions, classes and Manager instances
Callable(v) == v \in {"fn:5", "fn:0", "fn:fn5", "NOT_PROVIDED", "Manager"}

\* isinstance(v, Manager)
IsManager(v) == v = "Manager"

\* v() for a callable v
Call(v) ==
  CASE v = "fn:5" -> "int:5"
    [] v = "fn:0" -> "int:0"
    [] v = "fn:fn5" -> "fn:5"
    [] v = "NOT_PROVIDED" -> "NOT_PROVIDED()"
    [] OTHER -> "Manager()"

----------------------------------------------------------------------------
(* The Widget collaborator (import_export.widgets) *)

Widgets == {"Widget", "IntegerWidget"}

\* widget.clean(raw): the pass-through Widget returns raw unchanged; the
\* converting widget turns numeric text into an integer, the empty cell
\* into None, and rejects malformed text with a ValueError
WidgetClean(w, raw) ==
  IF w = "Widget" THEN [outcome |-> "return", value |-> raw]
  ELSE CASE raw = "str:x" -> [outcome |-> "raise", value |-> None]
         [] raw = "str:5" -> [outcome |-> "return", value |-> "int:5"]
         [] raw = "str:"  -> [outcome |-> "return", value |-> None]
         [] OTHER         -> [outcome |-> "return", value |-> raw]

\* widget.render(value): the text of the value
WidgetRender(w, v) ==
  CASE v = "int:0" -> "str:0"
    [] v = "int:5" -> "str:5"
    [] v \in {"str:", "str:x", "str:5"} -> v
    [] OTHER -> "str:<" \o v \o ">"

----------------------------------------------------------------------------
(* Rows: ordered mappings from column names to raw cell values *)

ColumnNames == {"col", "other"}

RawValues == {"None", "str:", "str:x", "str:5", "int:0", "int:5"}

Cell(k) == IF k = "col" THEN RawValues ELSE {"int:5"}

Rows ==
  { r \in UNION { [1..n -> ColumnNames \X RawValues] : n \in 0..MaxCols } :
      /\ \A i \in DOMAIN r : r[i][2] \in Cell(r[i][1])
      /\ \A i, j \in DOMAIN r : r[i][1] = r[j][1] => i = j }

\* column_name in data
HasKey(row, k) == \E i \in DOMAIN row : row[i][1] = k

\* data[column_name]
Lookup(row, k) == row[CHOOSE i \in DOMAIN row : row[i][1] = k][2]

\* list(data.keys())
Keys(row) == [i \in DOMAIN row |-> row[i][1]]

----------------------------------------------------------------------------
(* Results of one call *)

Outcome(f, h) ==
  [outcome |-> "return", value |-> None, exc |-> "none", msg |-> <<>>,
   default |-> f.default, heap |-> h, calls |-> 0,
   wclean |-> FALSE, wrender |-> FALSE, reads |-> {}]

----------------------------------------------------------------------------
(* Field.clean *)

\* clean without the NOT_PROVIDED test of line 67
clean_ignores_sentinel(f, h, data) ==
  LET r0 == Outcome(f, h) IN
  IF ~HasKey(data, f.column_name)
  THEN [r0 EXCEPT !.outcome = "raise", !.exc = "KeyError", !.msg = Keys(data)]
  ELSE
    LET w == WidgetClean(f.widget, Lookup(data, f.column_name))
        r1 == [r0 EXCEPT !.wclean = TRUE]
    IN
    IF w.outcome = "raise"
    THEN [r1 EXCEPT !.outcome = "raise", !.exc = "ValueError"]
    ELSE
      IF ~Truthy(w.value)
      THEN IF Callable(f.default)
           THEN [r1 EXCEPT !.value = Call(f.default),
                           !.default = Call(f.default), !.calls = 1]
           ELSE [r1 EXCEPT !.value = f.default]
      ELSE [r1 EXCEPT !.value = w.value]

\* clean reading the cell with data.get(column_name): no KeyError
clean_get(f, h, data) ==
  LET r0 == Outcome(f, h)
      raw == IF HasKey(data, f.column_name)
             THEN Lookup(data, f.column_name) ELSE None
      w == WidgetClean(f.widget, raw)
      r1 == [r0 EXCEPT !.wclean = TRUE]
  IN
  IF w.outcome = "raise"
  THEN [r1 EXCEPT !.outcome = "raise", !.exc = "ValueError"]
  ELSE
    IF ~Truthy(w.value) /\ f.default # NOT_PROVIDED
    THEN IF Callable(f.default)
         THEN [r1 EXCEPT !.value = Call(f.default),
                         !.default = Call(f.default), !.calls = 1]
         ELSE [r1 EXCEPT !.value = f.default]
    ELSE [r1 EXCEPT !.value = w.value]

clean(f, h, data) ==
  LET r0 == Outcome(f, h) IN
  IF ~HasKey(data, f.column_name)
  THEN [r0 EXCEPT !.outcome = "raise", !.exc = "KeyError", !.msg = Keys(data)]
  ELSE
    LET w == WidgetClean(f.widget, Lookup(data, f.column_name))
        r1 == [r0 EXCEPT !.wclean = TRUE]
    IN
    IF w.outcome = "raise"
    THEN [r1 EXCEPT !.outcome = "raise", !.exc = "ValueError"]
    ELSE
      IF ~Truthy(w.value) /\ f.default # NOT_PROVIDED
      THEN IF Callable(f.default)
           THEN [r1 EXCEPT !.value = Call(f.default),
                           !.default = Call(f.default), !.calls = 1]
           ELSE [r1 EXCEPT !.value = f.default]
      ELSE [r1 EXCEPT !.value = w.value]

----------------------------------------------------------------------------
(* Attribute paths and domain objects *)

\* The attribute of a Field built with attribute=None.  An attribute string
\* is the sequence of its characters; no character is the word "None".
NoneAttr == <<"None">>

RECURSIVE splitFrom(_, _)
\* the segments of the characters s, cur being the segment under way
splitFrom(s, cur) ==
  IF s = <<>> THEN <<cur>>
  ELSE IF Len(s) >= 2 /\ s[1] = "_" /\ s[2] = "_"
       THEN <<cur>> \o splitFrom(Tail(Tail(s)), "")
       ELSE splitFrom(Tail(s), cur \o s[1])

\* self.attribute.split('__')
split(attribute) == splitFrom(attribute, "")

\* An attribute whose access raises ValueError: a many-to-many relation of
\* an object that has no primary key yet
NeedsPk == "!ValueError"

\* hasattr(v, name)
HasAttr(h, v, name) == v \in Oids /\ name \in DOMAIN h[v].attrs

\* getattr(v, name, None)
GetAttr(h, v, name) ==
  IF ~HasAttr(h, v, name) THEN [outcome |-> "return", value |-> None]
  ELSE IF h[v].attrs[name] = NeedsPk
       THEN [outcome |-> "raise", value |-> None]
       ELSE [outcome |-> "return", value |-> h[v].attrs[name]]

\* the objects a getattr(v, name, None) reads an attribute of
ReadOf(v, name) == IF v \in Oids THEN {<<v, name>>} ELSE {}

\* setattr(o, name, v) on the heap
SetAttr(h, o, name, v) ==
  [h EXCEPT ![o].attrs =
     [n \in DOMAIN h[o].attrs \cup {name} |->
        IF n = name THEN v ELSE h[o].attrs[n]]]

----------------------------------------------------------------------------
(* Field.is_related_field *)

is_related_field(f, h, obj) ==
  LET attrs == split(f.attribute) IN
  IF Len(attrs) # 1
  THEN [outcome |-> "return", related |-> FALSE, exc |-> "none"]
  ELSE IF ~(obj \in Oids /\ h[obj].hasMeta)
       THEN [outcome |-> "raise", related |-> FALSE, exc |-> "AttributeError"]
       ELSE IF attrs[1] \notin DOMAIN h[obj].meta
            THEN [outcome |-> "raise", related |-> FALSE,
                  exc |-> "FieldDoesNotExist"]
            ELSE [outcome |-> "return",
                  related |-> h[obj].meta[attrs[1]] = "relation",
                  exc |-> "none"]

----------------------------------------------------------------------------
(* Field.get_value *)

RECURSIVE walk(_, _, _, _, _)
\* the loop over attrs and the final call, value being the current value
walk(f, h, value, attrs, r) ==
  IF attrs = <<>>
  THEN IF Callable(value) /\ ~IsManager(value)
       THEN [r EXCEPT !.value = Call(value)]
       ELSE [r EXCEPT !.value = value]
  ELSE
    LET attr == Head(attrs)
        rel == is_related_field(f, h, value)
    IN
    IF rel.outcome = "raise"
    THEN [r EXCEPT !.outcome = "raise", !.exc = rel.exc]
    ELSE
      LET name == IF rel.related THEN attr \o "_id" ELSE attr
          got == GetAttr(h, value, name)
          r1 == [r EXCEPT !.reads = @ \cup ReadOf(value, name)]
      IN
      IF got.outcome = "raise" THEN r1
      ELSE IF got.value = None THEN r1
           ELSE walk(f, h, got.value, Tail(attrs), r1)

get_value(f, h, obj) ==
  IF f.attribute = NoneAttr THEN Outcome(f, h)
  ELSE walk(f, h, obj, split(f.attribute), Outcome(f, h))

----------------------------------------------------------------------------
(* Field.export *)

\* export without the related-field branch of line 134
export_renders_related(f, h, obj) ==
  LET g == get_value(f, h, obj) IN
  IF g.outcome = "raise" THEN g
  ELSE IF g.value = None THEN [g EXCEPT !.value = "str:"]
  ELSE [g EXCEPT !.value = WidgetRender(f.widget, g.value), !.wrender = TRUE]

\* export testing "if not value" instead of "if value is None"
export_falsy(f, h, obj) ==
  LET g == get_value(f, h, obj) IN
  IF g.outcome = "raise" THEN g
  ELSE IF ~Truthy(g.value) THEN [g EXCEPT !.value = "str:"]
  ELSE LET rel == is_related_field(f, h, obj) IN
       IF rel.outcome = "raise"
       THEN [g EXCEPT !.outcome = "raise", !.exc = rel.exc, !.value = None]
       ELSE IF rel.related THEN g
            ELSE [g EXCEPT !.value = WidgetRender(f.widget, g.value),
                           !.wrender = TRUE]

export(f, h, obj) ==
  LET g == get_value(f, h, obj) IN
  IF g.outcome = "raise" THEN g
  ELSE IF g.value = None THEN [g EXCEPT !.value = "str:"]
  ELSE LET rel == is_related_field(f, h, obj) IN
       IF rel.outcome = "raise"
       THEN [g EXCEPT !.outcome = "raise", !.exc = rel.exc, !.value = None]
       ELSE IF rel.related THEN g
            ELSE [g EXCEPT !.value = WidgetRender(f.widget, g.value),
                           !.wrender = TRUE]

----------------------------------------------------------------------------
(* Field.save *)

RECURSIVE descend(_, _, _)
\* for attr in attrs[:-1]: obj = getattr(obj, attr, None)
descend(h, obj, attrs) ==
  IF Len(attrs) <= 1 THEN [outcome |-> "return", value |-> obj]
  ELSE LET got == GetAttr(h, obj, Head(attrs)) IN
       IF got.outcome = "raise" THEN got
       ELSE descend(h, got.value, Tail(attrs))

\* save without the readonly test of line 120
save_ignores_readonly(f, h, obj, data) ==
  LET r0 == Outcome(f, h) IN
  IF f.attribute = NoneAttr
  THEN [r0 EXCEPT !.outcome = "raise", !.exc = "AttributeError"]
  ELSE
    LET attrs == split(f.attribute)
        target == descend(h, obj, attrs)
        c == clean(f, h, data)
    IN
    IF target.outcome = "raise"
    THEN [r0 EXCEPT !.outcome = "raise", !.exc = "ValueError"]
    ELSE IF c.outcome = "raise" THEN c
    ELSE IF target.value \notin Oids
    THEN [c EXCEPT !.outcome = "raise", !.exc = "AttributeError",
                   !.value = None]
    ELSE IF HasAttr(h, target.value, attrs[Len(attrs)])
            /\ h[target.value].attrs[attrs[Len(attrs)]] = NeedsPk
    THEN [c EXCEPT !.outcome = "raise", !.exc = "ValueError", !.value = None]
    ELSE [c EXCEPT !.heap = SetAttr(h, target.value, attrs[Len(attrs)], c.value),
                   !.value = None]


\* save assigning on obj itself: the loop of lines 122-123 left out
save_on_root(f, h, obj, data) ==
  LET r0 == Outcome(f, h) IN
  IF f.readonly THEN r0
  ELSE IF f.attribute = NoneAttr
  THEN [r0 EXCEPT !.outcome = "raise", !.exc = "AttributeError"]
  ELSE
    LET attrs == split(f.attribute)
        target == [outcome |-> "return", value |-> obj]
        c == clean(f, h, data)
    IN
    IF target.outcome = "raise"
    THEN [r0 EXCEPT !.outcome = "raise", !.exc = "ValueError"]
    ELSE IF c.outcome = "raise" THEN c
    ELSE IF target.value \notin Oids
    THEN [c EXCEPT !.outcome = "raise", !.exc = "AttributeError",
                   !.value = None]
    ELSE IF HasAttr(h, target.value, attrs[Len(attrs)])
            /\ h[target.value].attrs[attrs[Len(attrs)]] = NeedsPk
    THEN [c EXCEPT !.outcome = "raise", !.exc = "ValueError", !.value = None]
    ELSE [c EXCEPT !.heap = SetAttr(h, target.value, attrs[Len(attrs)], c.value),
                   !.value = None]


save(f, h, obj, data) ==
  LET r0 == Outcome(f, h) IN
  IF f.readonly THEN r0
  ELSE IF f.attribute = NoneAttr
  THEN [r0 EXCEPT !.outcome = "raise", !.exc = "AttributeError"]
  ELSE
    LET attrs == split(f.attribute)
        target == descend(h, obj, attrs)
        c == clean(f, h, data)
    IN
    IF target.outcome = "raise"
    THEN [r0 EXCEPT !.outcome = "raise", !.exc = "ValueError"]
    ELSE IF c.outcome = "raise" THEN c
    ELSE IF target.value \notin Oids
    THEN [c EXCEPT !.outcome = "raise", !.exc = "AttributeError",
                   !.value = None]
    ELSE IF HasAttr(h, target.value, attrs[Len(attrs)])
            /\ h[target.value].attrs[attrs[Len(attrs)]] = NeedsPk
    THEN [c EXCEPT !.outcome = "raise", !.exc = "ValueError", !.value = None]
    ELSE [c EXCEPT !.heap = SetAttr(h, target.value, attrs[Len(attrs)], c.value),
                   !.value = None]

----------------------------------------------------------------------------
(* The Field instance and the domain objects *)

Attributes == {NoneAttr, <<"a">>, <<"a", "_", "_", "b">>}

Defaults == {"None", "NOT_PROVIDED", "int:5", "fn:5", "fn:0", "fn:fn5"}

\* Field.__init__
Field(attribute, column_name, widget, default, readonly) ==
  [attribute |-> attribute, default |-> default, column_name |-> column_name,
   widget |-> IF widget = None THEN "Widget" ELSE widget,
   readonly |-> readonly]

Fields ==
  { Field(a, "col", w, d, ro) :
      a \in Attributes, w \in Widgets \cup {None}, d \in Defaults,
      ro \in BOOLEAN }

Obj(attrs, hasMeta, meta) == [attrs |-> attrs, hasMeta |-> hasMeta, meta |-> meta]

NoAttrs == [n \in {} |-> None]

\* o1.a is a foreign key to o2 and o1.a_id its identifier
RelatedSet ==
  [o \in Oids |->
     IF o = "o1"
     THEN Obj([n \in {"a", "a_id"} |-> IF n = "a" THEN "o2" ELSE "int:5"],
              TRUE, [n \in {"a"} |-> "relation"])
     ELSE Obj([n \in {"b"} |-> "str:x"], TRUE, [n \in {"b"} |-> "scalar"])]

\* o1.a is a foreign key that is not set
RelatedUnset ==
  [o \in Oids |->
     IF o = "o1"
     THEN Obj([n \in {"a", "a_id"} |-> None], TRUE, [n \in {"a"} |-> "relation"])
     ELSE Obj([n \in {"b"} |-> "int:0"], TRUE, [n \in {"b"} |-> "scalar"])]

\* o1.a is a many-to-many relation and o1 has no primary key yet
RelatedNoPk ==
  [o \in Oids |->
     IF o = "o1"
     THEN Obj([n \in {"a"} |-> NeedsPk], TRUE, [n \in {"a"} |-> "relation"])
     ELSE Obj([n \in {"b"} |-> "Manager"], TRUE, [n \in {"b"} |-> "scalar"])]

\* o1.a is a plain column holding a method
ScalarCallable ==
  [o \in Oids |->
     IF o = "o1"
     THEN Obj([n \in {"a"} |-> "fn:0"], TRUE, [n \in {"a"} |-> "scalar"])
     ELSE Obj([n \in {"b"} |-> "fn:5"], TRUE, [n \in {"b"} |-> "scalar"])]

\* o1.a is a plain column holding o2, o2.b the empty string
ScalarNested ==
  [o \in Oids |->
     IF o = "o1"
     THEN Obj([n \in {"a"} |-> "o2"], TRUE, [n \in {"a"} |-> "scalar"])
     ELSE Obj([n \in {"b"} |-> "str:"], TRUE, [n \in {"b"} |-> "scalar"])]

\* neither object has an attribute or a schema field a or b
Bare ==
  [o \in Oids |-> Obj(NoAttrs, TRUE, NoAttrs)]

\* objects that are no models: no _meta
Plain ==
  [o \in Oids |->
     IF o = "o1"
     THEN Obj([n \in {"a"} |-> "o2"], FALSE, NoAttrs)
     ELSE Obj([n \in {"b"} |-> "int:5"], FALSE, NoAttrs)]

Heaps ==
  {RelatedSet, RelatedUnset, RelatedNoPk, ScalarCallable, ScalarNested,
   Bare, Plain}

----------------------------------------------------------------------------
(* The calls on one Field instance, one after the other *)

\* the objects handed to get_value, export and save: o2 is reached through o1
Roots == {"o1"}

Threads == {"t1", "t2"}

Idle == [t \in Threads |-> "idle"]

NoLocals ==
  [t \in Threads |->
     [value |-> None, met |-> FALSE, tmp |-> None, ret |-> None,
      exc |-> "none"]]

Record(op, obj, data, r) ==
  [op |-> op, obj |-> obj, data |-> data, outcome |-> r.outcome,
   value |-> r.value, exc |-> r.exc, msg |-> r.msg, calls |-> r.calls,
   wclean |-> r.wclean, wrender |-> r.wrender, reads |-> r.reads]

Init ==
  /\ field \in Fields
  /\ constructed = field
  /\ heap \in Heaps
  /\ last = Record("init", "none", <<>>, Outcome(field, heap))
  /\ invoked = 0
  /\ changes = 0
  /\ pc = Idle
  /\ loc = NoLocals

\* what a call leaves behind: the memoized default, the mutated objects
Apply(op, obj, data, r) ==
  /\ field' = [field EXCEPT !.default = r.default]
  /\ heap' = r.heap
  /\ last' = Record(op, obj, data, r)
  /\ invoked' = invoked + r.calls
  /\ changes' = IF r.default # field.default THEN changes + 1 ELSE changes
  /\ UNCHANGED <<constructed, pc, loc>>

Clean ==
  \E data \in Rows : Apply("clean", "none", data, clean(field, heap, data))

GetValue ==
  \E obj \in Roots : Apply("get_value", obj, <<>>, get_value(field, heap, obj))

Export ==
  \E obj \in Roots : Apply("export", obj, <<>>, export(field, heap, obj))

Save ==
  \E obj \in Roots, data \in Rows :
     Apply("save", obj, data, save(field, heap, obj, data))

Next == Clean \/ GetValue \/ Export \/ Save

Spec == Init /\ [][Next]_vars

----------------------------------------------------------------------------
(* Two clean calls running concurrently on one shared Field instance.  *)
(* Each step is one read or one write of self.default.                 *)

ConcInit ==
  /\ field \in Fields
  /\ constructed = field
  /\ heap = Bare
  /\ last = Record("init", "none", <<>>, Outcome(field, heap))
  /\ invoked = 0
  /\ changes = 0
  /\ pc = Idle
  /\ loc = NoLocals

Goto(t, label) == pc' = [pc EXCEPT ![t] = label]

\* lines 56-65: the column lookup and widget.clean, on the thread's own row
Lookup_(t) ==
  /\ pc[t] = "idle"
  /\ \E data \in Rows :
       IF ~HasKey(data, field.column_name)
       THEN /\ loc' = [loc EXCEPT ![t].exc = "KeyError"]
            /\ Goto(t, "done")
       ELSE LET w == WidgetClean(field.widget, Lookup(data, field.column_name))
            IN IF w.outcome = "raise"
               THEN /\ loc' = [loc EXCEPT ![t].exc = "ValueError"]
                    /\ Goto(t, "done")
               ELSE /\ loc' = [loc EXCEPT ![t].value = w.value]
                    /\ Goto(t, "test_default")
  /\ UNCHANGED <<field, constructed, heap, last, invoked, changes>>

\* line 67: if not value and self.default != NOT_PROVIDED
TestDefault(t) ==
  /\ pc[t] = "test_default"
  /\ IF ~Truthy(loc[t].value) /\ field.default # NOT_PROVIDED
     THEN /\ loc' = [loc EXCEPT ![t].met = TRUE]
          /\ Goto(t, "test_callable")
     ELSE /\ loc' = [loc EXCEPT ![t].ret = loc[t].value]
          /\ Goto(t, "done")
  /\ UNCHANGED <<field, constructed, heap, last, invoked, changes>>

\* line 68: if callable(self.default)
TestCallable(t) ==
  /\ pc[t] = "test_callable"
  /\ IF Callable(field.default) THEN Goto(t, "invoke") ELSE Goto(t, "return")
  /\ UNCHANGED <<field, constructed, heap, last, invoked, changes, loc>>

\* line 69, right-hand side: self.default is read again and called
Invoke(t) ==
  /\ pc[t] = "invoke"
  /\ IF Callable(field.default)
     THEN /\ loc' = [loc EXCEPT ![t].tmp = Call(field.default)]
          /\ invoked' = invoked + 1
          /\ Goto(t, "store")
     ELSE /\ loc' = [loc EXCEPT ![t].exc = "TypeError"]
          /\ invoked' = invoked
          /\ Goto(t, "done")
  /\ UNCHANGED <<field, constructed, heap, last, changes>>

\* line 69, the assignment to self.default
Store(t) ==
  /\ pc[t] = "store"
  /\ field' = [field EXCEPT !.default = loc[t].tmp]
  /\ changes' = IF loc[t].tmp # field.default THEN changes + 1 ELSE changes
  /\ Goto(t, "return")
  /\ UNCHANGED <<constructed, heap, last, invoked, loc>>

\* line 70: return self.default
Return(t) ==
  /\ pc[t] = "return"
  /\ loc' = [loc EXCEPT ![t].ret = field.default]
  /\ Goto(t, "done")
  /\ UNCHANGED <<field, constructed, heap, last, invoked, changes>>

ConcNext ==
  \E t \in Threads :
     \/ Lookup_(t)
     \/ TestDefault(t)
     \/ TestCallable(t)
     \/ Invoke(t)
     \/ Store(t)
     \/ Return(t)

ConcSpec == ConcInit /\ [][ConcNext]_vars

----------------------------------------------------------------------------
(* Properties *)

\* obj.<name> along the segments is absent: an attribute that does not
\* exist on the current value, or an intermediate segment that is None
RECURSIVE PathAbsent(_, _, _)
PathAbsent(h, v, attrs) ==
  /\ attrs # <<>>
  /\ \/ ~HasAttr(h, v, Head(attrs))
     \/ /\ h[v].attrs[Head(attrs)] # NeedsPk
        /\ Len(attrs) > 1
        /\ \/ h[v].attrs[Head(attrs)] = None
           \/ PathAbsent(h, h[v].attrs[Head(attrs)], Tail(attrs))

\* the attribute is one segment naming a relational field of obj's schema
RelatedSingle(f, h, obj) ==
  /\ f.attribute # NoneAttr
  /\ is_related_field(f, h, obj).outcome = "return"
  /\ is_related_field(f, h, obj).related

\* obj.<attribute>_id, None if unset
Identifier(f, h, obj) == GetAttr(h, obj, split(f.attribute)[1] \o "_id").value

\* C1 (as stated): a clean that succeeds returns the default when the cleaned
\* value is falsy and default is not NOT_PROVIDED, otherwise the cleaned value
\* as-is; a Field constructed without a default argument returns a falsy
\* cleaned value as-is.
C1Claim ==
  [][(last'.op = "clean" /\ last'.outcome = "return"
        /\ HasKey(last'.data, field.column_name)) =>
       LET w == WidgetClean(field.widget,
                            Lookup(last'.data, field.column_name)).value
           d == field.default
       IN /\ last'.value = IF ~Truthy(w) /\ d # NOT_PROVIDED
                           THEN (IF Callable(d) THEN Call(d) ELSE d)
                           ELSE w
          /\ (~Truthy(w) /\ constructed.default = None) => last'.value = w
    ]_vars

\* C1 (amended): a clean that succeeds returns the default (the result of the
\* call, for a callable default) when the cleaned value is falsy and default
\* is not NOT_PROVIDED, otherwise the cleaned value as-is; a falsy cleaned
\* value is returned as-is only when default is NOT_PROVIDED.
C1Amended ==
  [][(last'.op = "clean" /\ last'.outcome = "return"
        /\ HasKey(last'.data, field.column_name)) =>
       LET w == WidgetClean(field.widget,
                            Lookup(last'.data, field.column_name)).value
           d == field.default
       IN last'.value = IF ~Truthy(w) /\ d # NOT_PROVIDED
                        THEN (IF Callable(d) THEN Call(d) ELSE d)
                        ELSE w
    ]_vars

\* a Field built without a default argument cleaned the cell 0 and returned
\* None
C1Witness ==
  /\ last.op = "clean" /\ last.outcome = "return"
  /\ constructed.default = None /\ field.widget = "Widget"
  /\ HasKey(last.data, field.column_name)
  /\ Lookup(last.data, field.column_name) = "int:0"
  /\ last.value = None

\* C2 (as stated): a callable default is invoked at most once over all clean
\* calls, its result is stored in Field.default, and nothing is invoked
\* again later, whatever the callable produced.
C2Claim ==
  Callable(constructed.default) =>
    /\ invoked <= 1
    /\ invoked = 1 => field.default = Call(constructed.default)

\* C3: clean raises the missing-column error iff column_name is no key of the
\* row; the message then lists the row's columns, widget.clean is not invoked
\* and the default is not resolved.
C3MissingColumn ==
  [][last'.op = "clean" =>
       /\ (last'.exc = "KeyError") <=> ~HasKey(last'.data, field.column_name)
       /\ last'.exc = "KeyError" =>
            /\ last'.outcome = "raise"
            /\ \A k \in ColumnNames :
                 HasKey(last'.data, k) <=>
                   \E i \in DOMAIN last'.msg : last'.msg[i] = k
            /\ ~last'.wclean
            /\ last'.calls = 0
            /\ field' = field
            /\ invoked' = invoked
    ]_vars

\* clean of a row that has only the column "other" raised the error, whose
\* message names "other"
C3Witness ==
  /\ last.op = "clean" /\ last.exc = "KeyError"
  /\ last.msg = <<"other">>

\* C4 (as stated): get_value returns None without raising whenever the path
\* is absent on the object, the only segment of a one-segment path included.
C4Claim ==
  (/\ last.op = "get_value"
   /\ field.attribute # NoneAttr
   /\ PathAbsent(heap, last.obj, split(field.attribute)))
  => (last.outcome = "return" /\ last.value = None)

\* C5 (as stated): for a one-segment relational attribute get_value returns
\* obj.<attribute>_id without reading obj.<attribute>, and export returns that
\* identifier unchanged without widget.render; for every other Field export
\* returns widget.render(get_value(obj)).
C5Claim ==
  /\ (last.op = "get_value" /\ RelatedSingle(field, heap, last.obj)) =>
       /\ last.outcome = "return"
       /\ last.value = Identifier(field, heap, last.obj)
       /\ <<last.obj, split(field.attribute)[1]>> \notin last.reads
  /\ (last.op = "export" /\ RelatedSingle(field, heap, last.obj)) =>
       /\ last.outcome = "return"
       /\ last.value = Identifier(field, heap, last.obj)
       /\ ~last.wrender
  /\ (/\ last.op = "export" /\ ~RelatedSingle(field, heap, last.obj)
      /\ get_value(field, heap, last.obj).outcome = "return") =>
       /\ last.outcome = "return"
       /\ last.value =
            WidgetRender(field.widget, get_value(field, heap, last.obj).value)

\* C5 (amended): for a one-segment relational attribute get_value returns
\* obj.<attribute>_id without reading obj.<attribute>, and export returns a
\* non-null identifier unchanged without widget.render; for every other Field
\* whose get_value returns a non-null value export returns widget.render of
\* it; a null value exports as "" without widget.render in both cases.
C5Amended ==
  /\ (last.op = "get_value" /\ RelatedSingle(field, heap, last.obj)) =>
       /\ last.outcome = "return"
       /\ last.value = Identifier(field, heap, last.obj)
       /\ <<last.obj, split(field.attribute)[1]>> \notin last.reads
  /\ (last.op = "export" /\ RelatedSingle(field, heap, last.obj)) =>
       /\ last.outcome = "return"
       /\ last.value = IF Identifier(field, heap, last.obj) = None
                       THEN "str:" ELSE Identifier(field, heap, last.obj)
       /\ ~last.wrender
  /\ (/\ last.op = "export" /\ ~RelatedSingle(field, heap, last.obj)
      /\ get_value(field, heap, last.obj).outcome = "return") =>
       /\ last.outcome = "return"
       /\ IF get_value(field, heap, last.obj).value = None
          THEN last.value = "str:" /\ ~last.wrender
          ELSE /\ last.wrender
               /\ last.value =
                    WidgetRender(field.widget,
                                 get_value(field, heap, last.obj).value)

\* export of an object whose relation a has the identifier 5 returned the
\* integer 5, not rendered
C5Witness ==
  /\ last.op = "export" /\ RelatedSingle(field, heap, last.obj)
  /\ last.outcome = "return" /\ last.value = "int:5" /\ ~last.wrender

\* C6 (as stated): export returns "" exactly when get_value is None.
C6Claim ==
  (last.op = "export" /\ last.outcome = "return") =>
    ((last.value = "str:") <=> (get_value(field, heap, last.obj).value = None))

\* C6 (amended): a None value always exports as ""; a non-None value exports
\* as "" only when its rendering by the widget (the raw identifier, for a
\* related field) is itself the empty string.
C6Amended ==
  (last.op = "export" /\ last.outcome = "return") =>
    LET v == get_value(field, heap, last.obj).value IN
    /\ v = None => last.value = "str:"
    /\ (last.value = "str:" /\ v # None) =>
         (IF RelatedSingle(field, heap, last.obj)
          THEN v ELSE WidgetRender(field.widget, v)) = "str:"

\* export of an object whose path resolves to None returned ""
C6Witness ==
  /\ last.op = "export" /\ last.outcome = "return"
  /\ field.attribute # NoneAttr
  /\ get_value(field, heap, last.obj).value = None
  /\ last.value = "str:"

\* C7: a save on a readonly Field changes no object, raises nothing, does not
\* invoke widget.clean and does not resolve the default, whatever the row.
C7ReadonlySave ==
  [][(last'.op = "save" /\ field.readonly) =>
       /\ heap' = heap
       /\ field' = field
       /\ last'.outcome = "return"
       /\ ~last'.wclean
       /\ last'.calls = 0
       /\ invoked' = invoked
    ]_vars

\* a readonly Field with a callable default saved a row whose cell the widget
\* rejects
C7Witness ==
  /\ last.op = "save" /\ field.readonly /\ last.outcome = "return"
  /\ field.widget = "IntegerWidget" /\ Callable(field.default)
  /\ HasKey(last.data, field.column_name)
  /\ Lookup(last.data, field.column_name) = "str:x"

\* C8 (as stated): for a non-readonly Field on "a__b" and a row holding
\* column_name that cleans, save then get_value returns what clean returns.
C8Claim ==
  [][(/\ last'.op = "save" /\ ~field.readonly
      /\ field.attribute = <<"a", "_", "_", "b">>
      /\ HasKey(last'.data, field.column_name)
      /\ clean(field, heap, last'.data).outcome = "return") =>
       /\ last'.outcome = "return"
       /\ get_value(field', heap', last'.obj).outcome = "return"
       /\ get_value(field', heap', last'.obj).value =
            clean(field, heap, last'.data).value
    ]_vars

\* C8 (amended): the same, provided obj.a is an existing object and the value
\* clean returns is not callable.
C8Amended ==
  [][(/\ last'.op = "save" /\ ~field.readonly
      /\ field.attribute = <<"a", "_", "_", "b">>
      /\ HasKey(last'.data, field.column_name)
      /\ clean(field, heap, last'.data).outcome = "return"
      /\ GetAttr(heap, last'.obj, "a").outcome = "return"
      /\ GetAttr(heap, last'.obj, "a").value \in Oids
      /\ ~Callable(clean(field, heap, last'.data).value)) =>
       /\ last'.outcome = "return"
       /\ get_value(field', heap', last'.obj).outcome = "return"
       /\ get_value(field', heap', last'.obj).value =
            clean(field, heap, last'.data).value
    ]_vars

\* a Field on "a__b" saved the cell "5" through the converting widget and
\* get_value reads the integer 5 back from o1.a.b
C8Witness ==
  /\ last.op = "save" /\ last.outcome = "return" /\ last.obj = "o1"
  /\ ~field.readonly /\ field.attribute = <<"a", "_", "_", "b">>
  /\ field.widget = "IntegerWidget"
  /\ HasKey(last.data, field.column_name)
  /\ Lookup(last.data, field.column_name) = "str:5"
  /\ get_value(field, heap, "o1").value = "int:5"

\* C9 (as stated): when concurrent clean calls on a Field with a callable
\* default meet a falsy cleaned value, none fails and each returns the
\* resolved default.
C9Claim ==
  \A t \in Threads :
    (pc[t] = "done" /\ loc[t].met /\ Callable(constructed.default)) =>
      /\ loc[t].exc = "none"
      /\ loc[t].ret = Call(constructed.default)

\* C10 (as stated): attribute, column_name, widget and readonly never change
\* and default changes at most once, from the callable to its result.
C10Claim ==
  /\ field.attribute = constructed.attribute
  /\ field.column_name = constructed.column_name
  /\ field.widget = constructed.widget
  /\ field.readonly = constructed.readonly
  /\ changes <= 1
  /\ changes = 1 =>
       (Callable(constructed.default)
          /\ field.default = Call(constructed.default))

====
